---- MODULE Spec2Model ----
(***************************************************************************)
(* Runtime interface casting (DynCast / Crosscast) of joodicator/Nexus.    *)
(*                                                                         *)
(* A generation directive (the derive macro of nxs_interface_macros, the   *)
(* macro_rules generator DynCast!, or derive_crosscast!) turns a declared  *)
(* list of base traits and a declared list of auto traits into an          *)
(* implementation of the dispatcher trait for one concrete type.  The      *)
(* extension traits (DynCastExt, CrosscastExt, CrosscastBox) turn the      *)
(* dispatcher's answers into typed pointers.                               *)
(***************************************************************************)
EXTENDS Integers, Sequences, FiniteSets, TLC

\* Longest declared list of base traits and of auto traits that is explored.
MaxBaseTraits == 2
MaxAutoTraits == 2

(***************************************************************************)
(* Names.                                                                  *)
(***************************************************************************)
\* enum AutoTrait: the auto traits the generators recognise.
AutoTrait == {"Sync", "Send", "Unpin", "UnwindSafe", "RefUnwindSafe"}

\* The auto traits the explored directives and cast targets are written with.
UsedAutoTraits == {"Send", "Sync", "Unpin"}

\* User traits in scope; each has the dispatcher trait (DynCast, resp.
\* Crosscast) as a supertrait, so that a trait object of it can be cast on.
UserTraits == {"Get0", "Get1"}

\* The concrete type the directive is written for, and an unrelated one.
ImplType == "Struct"
OtherType == "Other"

Range(s) == {s[i] : i \in 1..Len(s)}
SeqsUpTo(S, n) == UNION {[1..k -> S] : k \in 0..n}
\* Every order in which a set can be iterated.
Orders(S) == {s \in [1..Cardinality(S) -> S] : Range(s) = S}

(***************************************************************************)
(* Types as the generators write them (token level): a path and the list   *)
(* of auto traits after it; and TypeId::of, which is what the run time     *)
(* compares.  `dyn B + Send + Sync' and `dyn B + Sync + Send' are one      *)
(* type, and so is `Self' and the implementing type.                       *)
(***************************************************************************)
ConcreteTy(name) == [dyn |-> FALSE, name |-> name, autos |-> <<>>]
DynTy(base, autos) == [dyn |-> TRUE, name |-> base, autos |-> autos]

\* What a name written for an auto trait refers to at the call site: an alias
\* MySend of Send, the path of Send, or the standard trait of that name.
Resolve(name) == IF name \in {"MySend", "std::marker::Send"} THEN "Send" ELSE name

TypeIdOf(ty) ==
    [dyn |-> ty.dyn,
     name |-> IF ~ty.dyn /\ ty.name = "Self" THEN ImplType ELSE ty.name,
     autos |-> {Resolve(ty.autos[i]) : i \in 1..Len(ty.autos)}]

ConcreteId(name) == [dyn |-> FALSE, name |-> name, autos |-> {}]
DynId(base, autos) == [dyn |-> TRUE, name |-> base, autos |-> autos]

\* Plain dyn Any, without auto traits.
AnyAlone == DynId("Any", {})

\* The trait object type of the second guard of cast_arc.
AnySendSync == DynId("Any", {"Send", "Sync"})

(***************************************************************************)
(* The derive macro of nxs_interface_macros.                               *)
(***************************************************************************)
\* Options that keep the first base trait only.
Options_first(partial) ==
    [base_traits |-> IF partial.base_given /\ partial.base_traits # <<>>
                     THEN {partial.base_traits[1]} ELSE {},
     auto_traits |-> IF partial.auto_given THEN Range(partial.auto_traits)
                     ELSE {"Send", "Sync"}]

\* Options whose auto traits always include the defaults.
Options_defaults_added(partial) ==
    [base_traits |-> IF partial.base_given THEN Range(partial.base_traits) ELSE {},
     auto_traits |-> (IF partial.auto_given THEN Range(partial.auto_traits) ELSE {})
                     \cup {"Send", "Sync"}]

\* impl From<PartialOptions> for Options: a key that was not given gets its
\* default; a key that was given, even with an empty list, is used as it is.
Options(partial) ==
    [base_traits |-> IF partial.base_given THEN Range(partial.base_traits) ELSE {},
     auto_traits |-> IF partial.auto_given THEN Range(partial.auto_traits)
                     ELSE {"Send", "Sync"}]

\* The prefixes of the auto traits, instead of all sublists.
auto_trait_sets_prefixes(order) ==
    [i \in 1..(Len(order) + 1) |-> SubSeq(order, 1, i - 1)]

\* Only the lists that end where the iteration ends.
auto_trait_sets_suffixes(order) ==
    [i \in 1..(Len(order) + 1) |-> SubSeq(order, i, Len(order))]

\* The list of lists of auto traits: starting from the list holding the empty
\* list, each auto trait in turn doubles the list.
RECURSIVE auto_trait_sets(_)
auto_trait_sets(order) ==
    IF order = <<>> THEN << <<>> >>
    ELSE LET sets == auto_trait_sets(SubSeq(order, 1, Len(order) - 1))
             auto_trait == order[Len(order)]
         IN  sets \o [i \in 1..Len(sets) |-> Append(sets[i], auto_trait)]

\* The types to which casting shall be possible: the implementing type, then
\* for every base trait (in the set's iteration order) one trait object type
\* per list of auto traits.
RECURSIVE derive_castable(_, _)
derive_castable(base_order, sets) ==
    IF base_order = <<>> THEN << ConcreteTy(ImplType) >>
    ELSE derive_castable(SubSeq(base_order, 1, Len(base_order) - 1), sets)
         \o [i \in 1..Len(sets) |-> DynTy(base_order[Len(base_order)], sets[i])]

\* A chain with arms for the trait object types only.
ArmsDynOnly(castable) ==
    LET IsDyn(t) == t.dyn
        d == SelectSeq(castable, IsDyn)
    IN  [i \in 1..Len(d) |-> [to |-> d[i], fn |-> d[i]]]

\* One arm of the if/else-if chain of a generated casting method: the type
\* compared with `to', and the type the arm's static cast function returns.
Arms(castable) == [i \in 1..Len(castable) |-> [to |-> castable[i], fn |-> castable[i]]]

\* A dyn_cast_arc that is the normal method as soon as one of Sync and Send
\* is among the auto traits.
derive_arc_either(auto_traits, castable) ==
    IF "Sync" \in auto_traits \/ "Send" \in auto_traits
    THEN [i \in 1..Len(castable) |-> [to |-> castable[i], fn |-> castable[i]]]
    ELSE <<>>

\* The generated impl block.  dyn_cast_arc is the normal method only when Sync
\* and Send are both among the auto traits; otherwise its body is `None'.
derive_arc(auto_traits, castable) ==
    IF "Sync" \in auto_traits /\ "Send" \in auto_traits THEN Arms(castable) ELSE <<>>

derive(options, base_order, auto_order) ==
    LET castable == derive_castable(base_order, auto_trait_sets(auto_order))
    IN  [trait |-> "DynCast",
         can |-> castable,
         list |-> castable,
         tbl |-> Arms(castable),
         arc |-> derive_arc(options.auto_traits, castable)]

(***************************************************************************)
(* The macro_rules generator DynCast! of the crate `untitled'.             *)
(***************************************************************************)
\* An INPUT rule that takes the empty list of auto traits for an omitted one.
DynCast_input_empty_is_default(directive) ==
    IF directive.auto_given /\ directive.auto_traits # <<>>
    THEN directive.auto_traits ELSE <<"Send", "Sync">>

\* INPUT: without an auto_traits key the list is (Send, Sync).
DynCast_input(directive) ==
    IF directive.auto_given THEN directive.auto_traits ELSE <<"Send", "Sync">>

\* A STATE 1 whose rule for Sync writes Send=false instead of passing the
\* flag on.
RECURSIVE DynCast_state1_resetting(_, _, _)
DynCast_state1_resetting(ai, flags, ao) ==
    IF ai = <<>> THEN [ok |-> TRUE, flags |-> flags, auto_traits |-> ao]
    ELSE IF Head(ai) = "Send"
         THEN DynCast_state1_resetting(Tail(ai), [flags EXCEPT !.Send = TRUE],
                                       Append(ao, "Send"))
    ELSE IF Head(ai) = "Sync"
         THEN DynCast_state1_resetting(Tail(ai), [Send |-> FALSE, Sync |-> TRUE],
                                       Append(ao, "Sync"))
    ELSE IF Head(ai) \in {"Unpin", "UnwindSafe", "RefUnwindSafe"}
         THEN DynCast_state1_resetting(Tail(ai), flags, Append(ao, Head(ai)))
    ELSE [ok |-> FALSE, flags |-> flags, auto_traits |-> ao]

\* STATE 1: canonicalise the auto traits one by one and record the flags.  A
\* token that no rule matches stops the expansion with an error.
RECURSIVE DynCast_state1(_, _, _)
DynCast_state1(ai, flags, ao) ==
    IF ai = <<>> THEN [ok |-> TRUE, flags |-> flags, auto_traits |-> ao]
    ELSE IF Head(ai) = "Send"
         THEN DynCast_state1(Tail(ai), [flags EXCEPT !.Send = TRUE], Append(ao, "Send"))
    ELSE IF Head(ai) = "Sync"
         THEN DynCast_state1(Tail(ai), [flags EXCEPT !.Sync = TRUE], Append(ao, "Sync"))
    ELSE IF Head(ai) \in {"Unpin", "UnwindSafe", "RefUnwindSafe"}
         THEN DynCast_state1(Tail(ai), flags, Append(ao, Head(ai)))
    ELSE [ok |-> FALSE, flags |-> flags, auto_traits |-> ao]

\* The empty list and the whole list of auto traits, instead of all sublists.
DynCast_state2_whole(as, auto_sets) == auto_sets \o << as >>

\* STATE 2: all sublists of the list of auto traits.
RECURSIVE DynCast_state2(_, _)
DynCast_state2(as, auto_sets) ==
    IF as = <<>> THEN auto_sets
    ELSE DynCast_state2(Tail(as),
             auto_sets \o [i \in 1..Len(auto_sets) |-> Append(auto_sets[i], Head(as))])

\* STATE 3: every base trait combined with every list of auto traits.
RECURSIVE DynCast_state3(_, _, _)
DynCast_state3(bs, auto_sets, cast_types) ==
    IF bs = <<>> THEN cast_types
    ELSE DynCast_state3(Tail(bs), auto_sets,
             cast_types \o [i \in 1..Len(auto_sets) |-> DynTy(Head(bs), auto_sets[i])])

\* STATE 4: the normal dyn_cast_arc with both flags set, else one generated
\* from an empty list of types.
\* A STATE 4 that only ever generates the dyn_cast_arc refusing every type.
DynCast_state4_never(flags, cast_types) == <<>>

DynCast_state4(flags, cast_types) ==
    IF flags.Send /\ flags.Sync THEN Arms(cast_types) ELSE <<>>

DynCast_macro(directive) ==
    LET s1 == DynCast_state1(DynCast_input(directive),
                             [Send |-> FALSE, Sync |-> FALSE], <<>>)
        cast_types == DynCast_state3(<<"Any", "DynCast">> \o directive.base_traits,
                          DynCast_state2(s1.auto_traits, << <<>> >>),
                          << ConcreteTy(ImplType) >>)
    IN  [trait |-> "DynCast",
         can |-> cast_types,
         list |-> <<>>,
         tbl |-> Arms(cast_types),
         arc |-> DynCast_state4(s1.flags, cast_types)]

(***************************************************************************)
(* derive_crosscast! of the crate `untitled'.                              *)
(***************************************************************************)
\* An INPUT rule that leaves the list of auto traits empty when the key is
\* left out.
derive_crosscast_input_no_default(directive) ==
    IF directive.auto_given THEN directive.auto_traits ELSE <<>>

derive_crosscast_input(directive) ==
    IF directive.auto_given THEN directive.auto_traits ELSE <<"Send", "Sync">>

RECURSIVE derive_crosscast_state1(_, _)
derive_crosscast_state1(as, auto_sets) ==
    IF as = <<>> THEN auto_sets
    ELSE derive_crosscast_state1(Tail(as),
             auto_sets \o [i \in 1..Len(auto_sets) |-> Append(auto_sets[i], Head(as))])

RECURSIVE derive_crosscast_state2(_, _, _)
derive_crosscast_state2(bs, auto_sets, cast_types) ==
    IF bs = <<>> THEN cast_types
    ELSE derive_crosscast_state2(Tail(bs), auto_sets,
             cast_types \o [i \in 1..Len(auto_sets) |-> DynTy(Head(bs), auto_sets[i])])

derive_crosscast(directive) ==
    LET cast_types == derive_crosscast_state2(
                          <<"Any", "Crosscast">> \o directive.base_traits,
                          derive_crosscast_state1(derive_crosscast_input(directive),
                                                  << <<>> >>),
                          << ConcreteTy("Self") >>)
    IN  [trait |-> "Crosscast",
         can |-> cast_types,
         list |-> <<>>,
         tbl |-> Arms(cast_types),
         arc |-> <<>>]

(***************************************************************************)
(* A hand-written implementation of the trait: any membership list and any *)
(* if/else-if chain over the two types below, each arm's cast function     *)
(* being for the arm's type or for the other one.                          *)
(***************************************************************************)
HandWrittenTypes == {ConcreteTy(ImplType), DynTy("Any", <<"Send", "Sync">>)}
HandWrittenArms ==
    {<<>>} \cup {<<a>> : a \in [to : HandWrittenTypes, fn : HandWrittenTypes]}
    \cup {<<a, b>> : a \in [to : {ConcreteTy(ImplType)}, fn : HandWrittenTypes],
                     b \in [to : {DynTy("Any", <<"Send", "Sync">>)},
                            fn : HandWrittenTypes]}
HandWrittenCan ==
    {<<>>, <<ConcreteTy(ImplType)>>, <<DynTy("Any", <<"Send", "Sync">>)>>,
     <<ConcreteTy(ImplType), DynTy("Any", <<"Send", "Sync">>)>>}

hand_written(can, arms) ==
    [trait |-> "DynCast", can |-> can, list |-> can, tbl |-> arms, arc |-> arms]

(***************************************************************************)
(* The dispatcher trait's methods, as generated.                           *)
(***************************************************************************)
None == [some |-> FALSE]
Some(v) == [some |-> TRUE, val |-> v]

\* A membership test that compares the base only and not the auto traits.
dyn_can_cast_by_name(imp, to) ==
    \E i \in 1..Len(imp.can) :
        /\ TypeIdOf(imp.can[i]).dyn = to.dyn
        /\ TypeIdOf(imp.can[i]).name = to.name

\* dyn_can_cast / dyn_may_crosscast: is `to' among the listed TypeIds.
dyn_can_cast(imp, to) == \E i \in 1..Len(imp.can) : TypeIdOf(imp.can[i]) = to

\* A list that leaves out the implementing type.
castable_types_dyn_only(imp) ==
    LET IsDyn(t) == t.dyn
        d == SelectSeq(imp.list, IsDyn)
    IN  [i \in 1..Len(d) |-> TypeIdOf(d[i])]

\* castable_types (nxs_interface only): the TypeIds of the listed types.
castable_types(imp) == [i \in 1..Len(imp.list) |-> TypeIdOf(imp.list[i])]

\* A chain whose first arm is taken whatever `to' is.
first_arm_any(arms, to, i) == IF i > Len(arms) THEN 0 ELSE i

\* The if/else-if chain: the first arm whose TypeId equals `to', 0 when the
\* chain is exhausted.
RECURSIVE first_arm(_, _, _)
first_arm(arms, to, i) ==
    IF i > Len(arms) THEN 0
    ELSE IF to = TypeIdOf(arms[i].to) THEN i
    ELSE first_arm(arms, to, i + 1)

\* DynCastRef/Mut/Box/Rc/Arc::from_any_cast_fn (from_downcast_fn in the crate
\* `untitled'): the pointer as a pointer to dyn Any, and the cast function as
\* &dyn Any, of which only its type fn(P<dyn Any>) -> Option<P<T>> is kept.
from_any_cast_fn(src, fun) == [src |-> src, fun |-> fun]

\* A chain in which every arm hands out the cast function of the first arm.
cast_meth_first_fn(arms, self, to) ==
    LET i == first_arm(arms, to, 1)
    IN  IF i = 0 THEN None
        ELSE Some(from_any_cast_fn(self, TypeIdOf(arms[1].fn)))

\* dyn_cast_ref, dyn_cast_mut, dyn_cast_box, dyn_cast_rc and the normal
\* dyn_cast_arc: one generated body for all.
cast_meth(arms, self, to) ==
    LET i == first_arm(arms, to, 1)
    IN  IF i = 0 THEN None
        ELSE Some(from_any_cast_fn(self, TypeIdOf(arms[i].fn)))

dyn_cast_ref(imp, self, to) == cast_meth(imp.tbl, self, to)
dyn_cast_mut(imp, self, to) == cast_meth(imp.tbl, self, to)
dyn_cast_box(imp, self, to) == cast_meth(imp.tbl, self, to)
dyn_cast_rc(imp, self, to) == cast_meth(imp.tbl, self, to)
\* The dyn_cast_arc that always fails to cast, generated for every type.
dyn_cast_arc_failing(imp, self, to) == None
dyn_cast_arc(imp, self, to) == cast_meth(imp.arc, self, to)

\* A cast that applies the stored function whatever its type.
DynCast_cast_unchecked(wrapper, T) ==
    IF wrapper.src.concrete # ImplType THEN None
    ELSE Some([wrapper.src EXCEPT !.view = T])

\* A cast function that downcasts the pointer to the type it is held as, not to
\* the type of the object behind it.
DynCast_cast_static(wrapper, T) ==
    IF wrapper.fun # T THEN None
    ELSE IF wrapper.src.view # ConcreteId(ImplType) THEN None
    ELSE Some([wrapper.src EXCEPT !.view = T])

\* DynCastRef::cast and its four siblings: the stored function is downcast to
\* the function type for T and, if it is one, applied to the stored pointer;
\* the function downcasts the pointer to the implementing type and coerces it.
DynCast_cast(wrapper, T) ==
    IF wrapper.fun # T THEN None
    ELSE IF wrapper.src.concrete # ImplType THEN None
    ELSE Some([wrapper.src EXCEPT !.view = T])

(***************************************************************************)
(* DynCastExt.  A call returns the tag of its result, the pointer the      *)
(* result holds, and whether the pointer it was given was dropped.         *)
(***************************************************************************)
NoPtr == [kind |-> "none", view |-> ConcreteId(""), addr |-> "", concrete |-> ""]
Ret(tag, p, dropped) == [tag |-> tag, ptr |-> p, dropped |-> dropped]

can_cast(imp, T) == dyn_can_cast(imp, T)

\* A cast_ref that passes on what the wrapper's cast returns.
cast_ref_lenient(imp, self, T) ==
    LET res == dyn_cast_ref(imp, self, T)
    IN  IF ~res.some THEN Ret("None", NoPtr, FALSE)
        ELSE LET r == DynCast_cast(res.val, T)
             IN  IF r.some THEN Ret("Some", r.val, FALSE)
                 ELSE Ret("None", NoPtr, FALSE)

cast_ref(imp, self, T) ==
    LET res == dyn_cast_ref(imp, self, T)
    IN  IF ~res.some THEN Ret("None", NoPtr, FALSE)
        ELSE LET r == DynCast_cast(res.val, T)
             IN  IF r.some THEN Ret("Some", r.val, FALSE)
                 ELSE Ret("panic", NoPtr, FALSE)

cast_mut(imp, self, T) ==
    LET res == dyn_cast_mut(imp, self, T)
    IN  IF ~res.some THEN Ret("None", NoPtr, FALSE)
        ELSE LET r == DynCast_cast(res.val, T)
             IN  IF r.some THEN Ret("Some", r.val, FALSE)
                 ELSE Ret("panic", NoPtr, FALSE)

\* A cast_box that dispatches without asking can_cast first: the box has been
\* given away when the dispatcher answers None.
cast_box_unguarded(imp, self, T) ==
    LET res == dyn_cast_box(imp, self, T)
    IN  IF ~res.some THEN Ret("Err", NoPtr, TRUE)
        ELSE LET r == DynCast_cast(res.val, T)
             IN  IF r.some THEN Ret("Ok", r.val, FALSE)
                 ELSE Ret("panic", NoPtr, TRUE)

cast_box(imp, self, T) ==
    IF ~can_cast(imp, T) THEN Ret("Err", self, FALSE)
    ELSE LET res == dyn_cast_box(imp, self, T)
         IN  IF ~res.some THEN Ret("panic", NoPtr, TRUE)
             ELSE LET r == DynCast_cast(res.val, T)
                  IN  IF r.some THEN Ret("Ok", r.val, FALSE)
                      ELSE Ret("panic", NoPtr, TRUE)

\* A cast_rc in the style of cast_ref: the dispatcher is asked at once, and
\* when it answers None the pointer given to it is gone.
cast_rc_like_ref(imp, self, T) ==
    LET res == dyn_cast_rc(imp, self, T)
    IN  IF ~res.some THEN Ret("None", NoPtr, TRUE)
        ELSE LET r == DynCast_cast(res.val, T)
             IN  IF r.some THEN Ret("Ok", r.val, FALSE)
                 ELSE Ret("panic", NoPtr, TRUE)

\* A cast_rc that dispatches without asking can_cast first.
cast_rc_unguarded(imp, self, T) ==
    LET res == dyn_cast_rc(imp, self, T)
    IN  IF ~res.some THEN Ret("panic", NoPtr, TRUE)
        ELSE LET r == DynCast_cast(res.val, T)
             IN  IF r.some THEN Ret("Ok", r.val, FALSE)
                 ELSE Ret("panic", NoPtr, TRUE)

cast_rc(imp, self, T) ==
    IF ~can_cast(imp, T) THEN Ret("Err", self, FALSE)
    ELSE LET res == dyn_cast_rc(imp, self, T)
         IN  IF ~res.some THEN Ret("panic", NoPtr, TRUE)
             ELSE LET r == DynCast_cast(res.val, T)
                  IN  IF r.some THEN Ret("Ok", r.val, FALSE)
                      ELSE Ret("panic", NoPtr, TRUE)

\* A cast_arc with the first guard only.
cast_arc_one_guard(imp, self, T) ==
    IF ~can_cast(imp, T) THEN Ret("Err", self, FALSE)
    ELSE LET res == dyn_cast_arc(imp, self, T)
         IN  IF ~res.some THEN Ret("panic", NoPtr, TRUE)
             ELSE LET r == DynCast_cast(res.val, T)
                  IN  IF r.some THEN Ret("Ok", r.val, FALSE)
                      ELSE Ret("panic", NoPtr, TRUE)

cast_arc(imp, self, T) ==
    IF ~can_cast(imp, T) THEN Ret("Err", self, FALSE)
    ELSE IF ~can_cast(imp, AnySendSync) THEN Ret("Err", self, FALSE)
    ELSE LET res == dyn_cast_arc(imp, self, T)
         IN  IF ~res.some THEN Ret("panic", NoPtr, TRUE)
             ELSE LET r == DynCast_cast(res.val, T)
                  IN  IF r.some THEN Ret("Ok", r.val, FALSE)
                      ELSE Ret("panic", NoPtr, TRUE)

\* What the dispatcher method of the extension method `meth' answers for T,
\* and whether the extension method gets as far as calling it.
dispatch(meth, imp, self, T) ==
    IF meth = "cast_arc" THEN dyn_cast_arc(imp, self, T)
    ELSE cast_meth(imp.tbl, self, T)

dispatches(meth, imp, T) ==
    \/ meth \in {"cast_ref", "cast_mut"}
    \/ meth \in {"cast_box", "cast_rc"} /\ can_cast(imp, T)
    \/ meth = "cast_arc" /\ can_cast(imp, T) /\ can_cast(imp, AnySendSync)

(***************************************************************************)
(* Crosscast, DynRef/DynMut, CrosscastExt and CrosscastBox.                *)
(***************************************************************************)
\* DynRef::new / DynMut::new / Box::new(self as Box<$c>): the pointer, boxed
\* as dyn Any under the type it was coerced to.
DynRef_new(target, ty) == [obj |-> target, ty |-> ty]

\* dyn_crosscast_ref, dyn_crosscast_mut, dyn_crosscast_box.
dyn_crosscast(imp, self, to) ==
    LET i == first_arm(imp.tbl, to, 1)
    IN  IF i = 0 THEN None
        ELSE Some(DynRef_new(self, TypeIdOf(imp.tbl[i].fn)))

\* DynRef::downcast_ref, DynMut::downcast_mut, Box<dyn Any>::downcast.
DynRef_downcast(dr, T) ==
    IF dr.ty # T THEN None ELSE Some([dr.obj EXCEPT !.view = T])

may_crosscast(imp, T) == dyn_can_cast(imp, T)

crosscast_ref(imp, self, T) ==
    LET dr == dyn_crosscast(imp, self, T)
    IN  IF ~dr.some THEN Ret("None", NoPtr, FALSE)
        ELSE LET r == DynRef_downcast(dr.val, T)
             IN  IF r.some THEN Ret("Some", r.val, FALSE)
                 ELSE Ret("panic", NoPtr, FALSE)

crosscast_mut(imp, self, T) ==
    LET dr == dyn_crosscast(imp, self, T)
    IN  IF ~dr.some THEN Ret("None", NoPtr, FALSE)
        ELSE LET r == DynRef_downcast(dr.val, T)
             IN  IF r.some THEN Ret("Some", r.val, FALSE)
                 ELSE Ret("panic", NoPtr, FALSE)

crosscast(imp, self, T) ==
    IF ~may_crosscast(imp, T) THEN Ret("Err", self, FALSE)
    ELSE LET bb == dyn_crosscast(imp, self, T)
         IN  IF ~bb.some THEN Ret("panic", NoPtr, TRUE)
             ELSE LET r == DynRef_downcast(bb.val, T)
                  IN  IF r.some THEN Ret("Ok", r.val, FALSE)
                      ELSE Ret("panic", NoPtr, TRUE)

(***************************************************************************)
(* State.                                                                  *)
(***************************************************************************)
VARIABLES
    directive,  \* the generation directive as written (hand-written: none)
    hash,       \* iteration orders of the derive macro's two HashSets
    impl,       \* the implementation of the dispatcher trait
    pc,         \* "generate", "run", "returned", "panicked"
    ptr,        \* the pointer the program holds (the argument of the last call)
    res,        \* what the last call returned
    alive,      \* the object has not been dropped
    wrapper,    \* the DynCastRef, ..., DynRef or DynMut a dispatcher returned
    fut,        \* the future of import_from and, inside it, that of dyn_import
    rc          \* a reference-counted object and the Rc or Arc pointers to it

vars == <<directive, hash, impl, pc, ptr, res, alive, wrapper, fut, rc>>

\* No reference-counted object.  `strong' is the count in the allocation,
\* `live' the pointers the program holds, `freed' whether the object has
\* been destroyed.
NoRc == [kind |-> "none", strong |-> 0, live |-> <<>>, freed |-> FALSE]

\* No wrapper.  A wrapper is live until it is moved out of or dropped;
\* `finalized' counts the calls that extract from it, `results' lists the
\* methods that answered Some.
NoWrapper == [kind |-> "none", src |-> NoPtr, fun |-> ConcreteId(""),
              to |-> ConcreteId(""), live |-> FALSE, finalized |-> 0,
              results |-> <<>>]

\* No import under way.  `out' is the output of dyn_import's future, `ret'
\* that of import_from's, `polls' counts the polls that returned Pending,
\* `casts' the calls of DynCastRef::cast, `load' is what Commands::load
\* returned.
NoOut == [tag |-> "", err |-> "", wrapper |-> NoWrapper, ptr |-> NoPtr]
NoFut == [state |-> "none", root |-> "", M |-> ConcreteId(""), polls |-> 0,
          out |-> NoOut, ret |-> NoOut, casts |-> 0, load |-> NoOut]

NoImpl == [trait |-> "", can |-> <<>>, list |-> <<>>, tbl |-> <<>>, arc |-> <<>>]
NoRes == [meth |-> "", via |-> ConcreteId(""), to |-> ConcreteId(""),
          can |-> FALSE, tag |-> "", ptr |-> NoPtr, dropped |-> FALSE,
          fun |-> ConcreteId(""), list |-> <<>>]

\* Directives: the two macro_rules generators need the base_traits key; a key
\* that is not given has no list.
Directives ==
    {d \in [generator : {"derive", "DynCast!", "derive_crosscast!"},
            base_given : BOOLEAN,
            base_traits : SeqsUpTo(UserTraits, MaxBaseTraits),
            auto_given : BOOLEAN,
            auto_traits : SeqsUpTo(UsedAutoTraits, MaxAutoTraits)] :
        /\ (~d.base_given => d.base_traits = <<>>)
        /\ (~d.auto_given => d.auto_traits = <<>>)
        /\ (d.generator # "derive" => d.base_given)}

HandWritten ==
    [generator |-> "hand-written", base_given |-> FALSE, base_traits |-> <<>>,
     auto_given |-> FALSE, auto_traits |-> <<>>]

NoDuplicates(s) == Cardinality(Range(s)) = Len(s)

\* The sets the derive macro iterates: the base traits after `extend', and
\* the auto traits.
IteratedBase(d) == Options(d).base_traits \cup {"Any", "DynCast"}
IteratedAuto(d) == Options(d).auto_traits

NoHash == [base |-> <<>>, auto |-> <<>>]

\* Two iteration orders of a set: along a fixed order of the names and
\* against it.
NameOrder == <<"Any", "DynCast", "Get0", "Get1", "Send", "Sync", "Unpin",
               "UnwindSafe", "RefUnwindSafe">>
Reverse(s) == [i \in 1..Len(s) |-> s[Len(s) + 1 - i]]
Along(S) == LET In(x) == x \in S IN SelectSeq(NameOrder, In)
TwoOrders(S) == {Along(S), Reverse(Along(S))}

\* The auto traits in every order (the order shows in the types written),
\* the base traits in two.
Hashes(d) ==
    IF d.generator = "derive"
    THEN [base : TwoOrders(IteratedBase(d)), auto : Orders(IteratedAuto(d))]
    ELSE {NoHash}

TwoHashes(d) ==
    IF d.generator = "derive"
    THEN {[base |-> Along(IteratedBase(d)), auto |-> Along(IteratedAuto(d))],
          [base |-> Reverse(Along(IteratedBase(d))),
           auto |-> Reverse(Along(IteratedAuto(d)))]}
    ELSE {NoHash}

InitWith(d, h) ==
    /\ directive = d
    /\ hash = h
    /\ impl = NoImpl
    /\ pc = "generate"
    /\ ptr = NoPtr
    /\ res = NoRes
    /\ alive = TRUE
    /\ wrapper = NoWrapper
    /\ fut = NoFut
    /\ rc = NoRc

(***************************************************************************)
(* Generation.                                                             *)
(***************************************************************************)
Derive ==
    /\ pc = "generate"
    /\ directive.generator = "derive"
    /\ impl' = derive(Options(directive), hash.base, hash.auto)
    /\ pc' = "run"
    /\ UNCHANGED <<directive, hash, ptr, res, alive, wrapper, fut, rc>>

ExpandDynCast ==
    /\ pc = "generate"
    /\ directive.generator = "DynCast!"
    /\ impl' = DynCast_macro(directive)
    /\ pc' = "run"
    /\ UNCHANGED <<directive, hash, ptr, res, alive, wrapper, fut, rc>>

ExpandCrosscast ==
    /\ pc = "generate"
    /\ directive.generator = "derive_crosscast!"
    /\ impl' = derive_crosscast(directive)
    /\ pc' = "run"
    /\ UNCHANGED <<directive, hash, ptr, res, alive, wrapper, fut, rc>>

WriteByHand ==
    /\ pc = "generate"
    /\ directive.generator = "hand-written"
    /\ \E can \in HandWrittenCan, arms \in HandWrittenArms :
           impl' = hand_written(can, arms)
    /\ pc' = "run"
    /\ UNCHANGED <<directive, hash, ptr, res, alive, wrapper, fut, rc>>

(***************************************************************************)
(* Run time.                                                               *)
(***************************************************************************)
\* The types a cast can be asked for.
TargetTypes(trait) ==
    {ConcreteId(ImplType), ConcreteId(OtherType)}
    \cup {DynId(b, s) : b \in {"Any", trait} \cup UserTraits,
                        s \in SUBSET UsedAutoTraits}
    \cup {DynId("", s) : s \in (SUBSET UsedAutoTraits) \ {{}}}

\* The extension methods exist on the implementing type and on the trait
\* objects of the dispatcher trait and of its subtraits.
Callable(view, trait) ==
    \/ view = ConcreteId(ImplType)
    \/ view.dyn /\ view.name \in {trait} \cup UserTraits

Kinds(trait) ==
    IF trait = "DynCast" THEN {"ref", "mut", "box", "rc", "arc"}
    ELSE {"ref", "mut", "box"}

\* &Struct, Box::new(Struct), ... possibly coerced to the dispatcher trait's
\* trait object.
New ==
    /\ pc = "run"
    /\ ptr = NoPtr
    /\ alive
    /\ \E kind \in Kinds(impl.trait),
          view \in {ConcreteId(ImplType), DynId(impl.trait, {})} :
           ptr' = [kind |-> kind, view |-> view, addr |-> "obj",
                   concrete |-> ImplType]
    /\ UNCHANGED <<directive, hash, impl, pc, res, alive, wrapper, fut, rc>>

Returned(meth, T, r) ==
    /\ res' = [NoRes EXCEPT !.meth = meth, !.to = T, !.can = can_cast(impl, T),
                            !.tag = r.tag, !.ptr = r.ptr, !.dropped = r.dropped]
    /\ pc' = IF r.tag = "panic" THEN "panicked" ELSE "returned"
    /\ alive' = (alive /\ ~r.dropped)
    /\ UNCHANGED <<directive, hash, impl, ptr, wrapper, fut, rc>>

Call(kind, trait) ==
    /\ pc = "run"
    /\ impl.trait = trait
    /\ ptr.kind = kind
    /\ Callable(ptr.view, trait)

CastRef ==
    /\ Call("ref", "DynCast")
    /\ \E T \in TargetTypes("DynCast") : Returned("cast_ref", T, cast_ref(impl, ptr, T))

CastMut ==
    /\ Call("mut", "DynCast")
    /\ \E T \in TargetTypes("DynCast") : Returned("cast_mut", T, cast_mut(impl, ptr, T))

CastBox ==
    /\ Call("box", "DynCast")
    /\ \E T \in TargetTypes("DynCast") : Returned("cast_box", T, cast_box(impl, ptr, T))

CastRc ==
    /\ Call("rc", "DynCast")
    /\ \E T \in TargetTypes("DynCast") : Returned("cast_rc", T, cast_rc(impl, ptr, T))

CastArc ==
    /\ Call("arc", "DynCast")
    /\ \E T \in TargetTypes("DynCast") : Returned("cast_arc", T, cast_arc(impl, ptr, T))

\* obj.cast_ref::<V>()?.cast_ref::<T>(): a shared reference is cast to the
\* implementing type or to a user trait's trait object, and the result is cast
\* again; the first cast's reference stays with the caller.
PlainTypes == {ConcreteId(ImplType)} \cup {DynId(b, {}) : b \in UserTraits}

CastRefTwice ==
    /\ Call("ref", "DynCast")
    /\ \E V \in PlainTypes, T \in PlainTypes :
         LET first == cast_ref(impl, ptr, V)
             r == IF first.tag = "Some" THEN cast_ref(impl, first.ptr, T) ELSE first
         IN  /\ res' = [NoRes EXCEPT !.meth = "cast_ref.cast_ref", !.via = V,
                                     !.to = T, !.can = can_cast(impl, T),
                                     !.tag = r.tag, !.ptr = r.ptr]
             /\ pc' = IF r.tag = "panic" THEN "panicked" ELSE "returned"
    /\ UNCHANGED <<directive, hash, impl, ptr, alive, wrapper, fut, rc>>

\* The result of the two casts is dropped.
Forget ==
    /\ pc = "returned"
    /\ res.meth = "cast_ref.cast_ref"
    /\ res' = NoRes
    /\ pc' = "run"
    /\ UNCHANGED <<directive, hash, impl, ptr, alive, wrapper, fut, rc>>

CrosscastRef ==
    /\ Call("ref", "Crosscast")
    /\ \E T \in TargetTypes("Crosscast") :
           Returned("crosscast_ref", T, crosscast_ref(impl, ptr, T))

CrosscastMut ==
    /\ Call("mut", "Crosscast")
    /\ \E T \in TargetTypes("Crosscast") :
           Returned("crosscast_mut", T, crosscast_mut(impl, ptr, T))

CrosscastBox ==
    /\ Call("box", "Crosscast")
    /\ \E T \in TargetTypes("Crosscast") :
           Returned("crosscast", T, crosscast(impl, ptr, T))

\* The caller goes on with what it got: the cast pointer, or on failure the
\* pointer it had (for an owning pointer, the one handed back in Err).
Continue ==
    /\ pc = "returned"
    /\ res.meth # "cast_ref.cast_ref"
    /\ ptr' = IF res.tag \in {"Some", "Ok", "Err"} THEN res.ptr ELSE ptr
    /\ res' = NoRes
    /\ pc' = "run"
    /\ UNCHANGED <<directive, hash, impl, alive, wrapper, fut, rc>>

(***************************************************************************)
(* Direct calls of the dispatcher trait's methods.                         *)
(***************************************************************************)
Fresh(kind) == [kind |-> kind, view |-> ConcreteId(ImplType), addr |-> "obj",
                concrete |-> ImplType]

CallDynCanCast ==
    /\ pc = "run"
    /\ \E T \in TargetTypes(impl.trait) :
           res' = [NoRes EXCEPT !.meth = "dyn_can_cast", !.to = T,
                                !.can = dyn_can_cast(impl, T)]
    /\ pc' = "returned"
    /\ UNCHANGED <<directive, hash, impl, ptr, alive, wrapper, fut, rc>>

CallCastableTypes ==
    /\ pc = "run"
    /\ directive.generator = "derive"
    /\ res' = [NoRes EXCEPT !.meth = "castable_types", !.list = castable_types(impl)]
    /\ pc' = "returned"
    /\ UNCHANGED <<directive, hash, impl, ptr, alive, wrapper, fut, rc>>

\* A direct call of dyn_cast_ref, dyn_cast_mut, dyn_cast_box or dyn_cast_rc on
\* a new pointer of that kind: the wrapper's pointer and function are kept.
\* On None, an owning pointer has been dropped.
CallDynCastPtr ==
    /\ pc = "run"
    /\ impl.trait = "DynCast"
    /\ \E kind \in {"ref", "mut", "box", "rc"}, T \in TargetTypes("DynCast") :
         LET r == CASE kind = "ref" -> dyn_cast_ref(impl, Fresh(kind), T)
                    [] kind = "mut" -> dyn_cast_mut(impl, Fresh(kind), T)
                    [] kind = "box" -> dyn_cast_box(impl, Fresh(kind), T)
                    [] kind = "rc" -> dyn_cast_rc(impl, Fresh(kind), T)
             owned == kind \in {"box", "rc"}
         IN  /\ res' = IF r.some
                       THEN [NoRes EXCEPT !.meth = "dyn_cast_" \o kind, !.to = T,
                                          !.can = dyn_can_cast(impl, T),
                                          !.tag = "Some", !.ptr = r.val.src,
                                          !.fun = r.val.fun]
                       ELSE [NoRes EXCEPT !.meth = "dyn_cast_" \o kind, !.to = T,
                                          !.can = dyn_can_cast(impl, T),
                                          !.tag = "None", !.dropped = owned]
             /\ alive' = (r.some \/ ~owned)
    /\ pc' = "returned"
    /\ UNCHANGED <<directive, hash, impl, ptr, wrapper, fut, rc>>

\* Arc::new(Struct).dyn_cast_arc(to): on None the pointer has been dropped.
CallDynCastArc ==
    /\ pc = "run"
    /\ impl.trait = "DynCast"
    /\ \E T \in TargetTypes("DynCast") :
         LET r == dyn_cast_arc(impl, Fresh("arc"), T)
         IN  /\ res' = IF r.some
                       THEN [NoRes EXCEPT !.meth = "dyn_cast_arc", !.to = T,
                                          !.can = dyn_can_cast(impl, T),
                                          !.tag = "Some", !.ptr = r.val.src,
                                          !.fun = r.val.fun]
                       ELSE [NoRes EXCEPT !.meth = "dyn_cast_arc", !.to = T,
                                          !.can = dyn_can_cast(impl, T),
                                          !.tag = "None", !.dropped = TRUE]
             /\ alive' = r.some
    /\ pc' = "returned"
    /\ UNCHANGED <<directive, hash, impl, ptr, wrapper, fut, rc>>

\* The result is dropped and the program goes on with a new object.
Reset ==
    /\ pc = "returned"
    /\ res' = NoRes
    /\ alive' = TRUE
    /\ pc' = "run"
    /\ UNCHANGED <<directive, hash, impl, ptr, wrapper, fut, rc>>

Next ==
    \/ Derive \/ ExpandDynCast \/ ExpandCrosscast \/ WriteByHand
    \/ New
    \/ CastRef \/ CastMut \/ CastBox \/ CastRc \/ CastArc
    \/ CastRefTwice \/ Forget
    \/ CrosscastRef \/ CrosscastMut \/ CrosscastBox
    \/ Continue

Init ==
    \E d \in {x \in Directives : NoDuplicates(x.base_traits)
                                 /\ NoDuplicates(x.auto_traits)}
             \cup {HandWritten} :
        \E h \in TwoHashes(d) : InitWith(d, h)

Spec == Init /\ [][Next]_vars

\* Generation from every directive and every iteration order, followed by
\* direct calls of the trait's methods.
InitTrait == \E d \in Directives : \E h \in Hashes(d) : InitWith(d, h)

NextTrait ==
    \/ Derive \/ ExpandDynCast \/ ExpandCrosscast
    \/ CallDynCanCast \/ CallCastableTypes \/ CallDynCastArc
    \/ CallDynCastPtr
    \/ Reset

SpecTrait == InitTrait /\ [][NextTrait]_vars

(***************************************************************************)
(* Reading the options.  Here the directive is the generator and the list  *)
(* of items `key(list)' it is given: for the derive macros the items of    *)
(* the helper attributes in order, for the macro_rules generators the      *)
(* arguments after the type.                                               *)
(***************************************************************************)
\* Items in a directive at most.
MaxItems == 2

AttrBaseLists == {<<>>, <<"Get0">>, <<"Get1">>, <<"Get0", "Get1">>}
AttrAutoLists ==
    {<<>>, <<"Send">>, <<"Sync">>, <<"Send", "Sync">>, <<"Send", "Send">>,
     <<"Sync", "Send", "Sync">>, <<"MySend">>, <<"std::marker::Send">>}
AttrPathLists == {<<>>, <<"path_a">>, <<"path_b">>, <<"path_a", "path_b">>}

AttrItems ==
    [key : {"base_traits"}, list : AttrBaseLists]
    \cup [key : {"auto_traits"}, list : AttrAutoLists]
    \cup [key : {"path", "crate"}, list : AttrPathLists]

AttrDirectives ==
    [generator : {"derive", "DynCast!", "derive_crosscast!", "LeafModule"},
     items : SeqsUpTo(AttrItems, MaxItems)]

\* Path::get_ident: a path of one segment is an identifier.
get_ident(path) == path # "std::marker::Send"

PartialOptions ==
    [ok |-> TRUE, base_given |-> FALSE, base_traits |-> <<>>,
     auto_given |-> FALSE, auto_traits |-> <<>>,
     path_given |-> FALSE, dyn_cast_path |-> ""]

\* An item reader that takes any name resolving to a recognised auto trait.
read_item_resolving(p, item) ==
    IF item.key = "base_traits"
    THEN [p EXCEPT !.base_given = TRUE, !.base_traits = @ \o item.list]
    ELSE IF item.key = "auto_traits"
    THEN IF \A i \in 1..Len(item.list) : Resolve(item.list[i]) \in AutoTrait
         THEN [p EXCEPT !.auto_given = TRUE,
                        !.auto_traits = @ \o [i \in 1..Len(item.list) |->
                                                  Resolve(item.list[i])]]
         ELSE [p EXCEPT !.ok = FALSE]
    ELSE IF item.key = "path"
    THEN IF Len(item.list) = 1 /\ ~p.path_given
         THEN [p EXCEPT !.path_given = TRUE, !.dyn_cast_path = item.list[1]]
         ELSE [p EXCEPT !.ok = FALSE]
    ELSE [p EXCEPT !.ok = FALSE]

\* An item reader for which an auto trait already in the set is an error.
read_item_rejecting_dup(p, item) ==
    IF item.key = "base_traits"
    THEN [p EXCEPT !.base_given = TRUE, !.base_traits = @ \o item.list]
    ELSE IF item.key = "auto_traits"
    THEN IF /\ \A i \in 1..Len(item.list) :
                   get_ident(item.list[i]) /\ item.list[i] \in AutoTrait
            /\ NoDuplicates(p.auto_traits \o item.list)
         THEN [p EXCEPT !.auto_given = TRUE, !.auto_traits = @ \o item.list]
         ELSE [p EXCEPT !.ok = FALSE]
    ELSE IF item.key = "path"
    THEN IF Len(item.list) = 1 /\ ~p.path_given
         THEN [p EXCEPT !.path_given = TRUE, !.dyn_cast_path = item.list[1]]
         ELSE [p EXCEPT !.ok = FALSE]
    ELSE [p EXCEPT !.ok = FALSE]

\* An item reader in which a repeated key replaces the list given before.
read_item_last_wins(p, item) ==
    IF item.key = "base_traits"
    THEN [p EXCEPT !.base_given = TRUE, !.base_traits = item.list]
    ELSE IF item.key = "auto_traits"
    THEN IF \A i \in 1..Len(item.list) :
                get_ident(item.list[i]) /\ item.list[i] \in AutoTrait
         THEN [p EXCEPT !.auto_given = TRUE, !.auto_traits = item.list]
         ELSE [p EXCEPT !.ok = FALSE]
    ELSE IF item.key = "path"
    THEN IF Len(item.list) = 1 /\ ~p.path_given
         THEN [p EXCEPT !.path_given = TRUE, !.dyn_cast_path = item.list[1]]
         ELSE [p EXCEPT !.ok = FALSE]
    ELSE [p EXCEPT !.ok = FALSE]

\* One item of a dyn_cast attribute.  The lists are kept in the order of
\* insertion; Options makes sets of them.
read_item(p, item) ==
    IF item.key = "base_traits"
    THEN [p EXCEPT !.base_given = TRUE, !.base_traits = @ \o item.list]
    ELSE IF item.key = "auto_traits"
    THEN IF \A i \in 1..Len(item.list) :
                get_ident(item.list[i]) /\ item.list[i] \in AutoTrait
         THEN [p EXCEPT !.auto_given = TRUE, !.auto_traits = @ \o item.list]
         ELSE [p EXCEPT !.ok = FALSE]
    ELSE IF item.key = "path"
    THEN IF Len(item.list) = 1 /\ ~p.path_given
         THEN [p EXCEPT !.path_given = TRUE, !.dyn_cast_path = item.list[1]]
         ELSE [p EXCEPT !.ok = FALSE]
    ELSE [p EXCEPT !.ok = FALSE]

\* read_attr over the attributes of the type, stopping at the first error.
RECURSIVE read_attr(_, _)
read_attr(p, items) ==
    IF ~p.ok \/ items = <<>> THEN p
    ELSE read_attr(read_item(p, Head(items)), Tail(items))

\* The option of the LeafModule derive macro: crate(path), once.
RECURSIVE leaf_module_attrs(_, _)
leaf_module_attrs(crate_path, items) ==
    IF items = <<>> THEN [ok |-> TRUE, crate_path |-> crate_path]
    ELSE LET item == Head(items)
         IN  IF item.key = "crate" /\ Len(item.list) = 1 /\ crate_path = ""
             THEN leaf_module_attrs(item.list[1], Tail(items))
             ELSE [ok |-> FALSE, crate_path |-> crate_path]

\* The INPUT rules of DynCast!: base_traits(...), then possibly
\* auto_traits(...) of single tokens.  No other invocation matches a rule.
DynCast_invocation(items) ==
    LET ok == /\ Len(items) \in {1, 2}
              /\ items[1].key = "base_traits"
              /\ Len(items) = 2
                   => /\ items[2].key = "auto_traits"
                      /\ \A i \in 1..Len(items[2].list) : get_ident(items[2].list[i])
    IN  [ok |-> ok,
         directive |-> IF ok
                       THEN [generator |-> "DynCast!", base_given |-> TRUE,
                             base_traits |-> items[1].list,
                             auto_given |-> Len(items) = 2,
                             auto_traits |-> IF Len(items) = 2 THEN items[2].list
                                             ELSE <<>>]
                       ELSE HandWritten]

\* The INPUT rules of derive_crosscast!: the auto traits are paths.
derive_crosscast_invocation(items) ==
    LET ok == /\ Len(items) \in {1, 2}
              /\ items[1].key = "base_traits"
              /\ Len(items) = 2 => items[2].key = "auto_traits"
    IN  [ok |-> ok,
         directive |-> IF ok
                       THEN [generator |-> "derive_crosscast!", base_given |-> TRUE,
                             base_traits |-> items[1].list,
                             auto_given |-> Len(items) = 2,
                             auto_traits |-> IF Len(items) = 2 THEN items[2].list
                                             ELSE <<>>]
                       ELSE HandWritten]

\* The iteration orders of the sets the derive macro is left with.
AttrHashes(d) ==
    LET p == read_attr(PartialOptions, d.items)
    IN  IF d.generator = "derive" /\ p.ok
        THEN {[base |-> Along(IteratedBase(p)), auto |-> Along(IteratedAuto(p))],
              [base |-> Reverse(Along(IteratedBase(p))),
               auto |-> Reverse(Along(IteratedAuto(p)))]}
        ELSE {NoHash}

\* derive: the options are read, and on an error the output is the error.
DeriveAttr ==
    /\ pc = "generate"
    /\ directive.generator = "derive"
    /\ LET p == read_attr(PartialOptions, directive.items)
       IN  IF p.ok
           THEN /\ impl' = derive(Options(p), hash.base, hash.auto)
                /\ pc' = "run"
           ELSE /\ impl' = NoImpl
                /\ pc' = "error"
    /\ UNCHANGED <<directive, hash, ptr, res, alive, wrapper, fut, rc>>

\* DynCast!: an invocation no rule matches, or an auto trait STATE 1 has no
\* rule for, ends the expansion with an error.
ExpandDynCastAttr ==
    /\ pc = "generate"
    /\ directive.generator = "DynCast!"
    /\ LET inv == DynCast_invocation(directive.items)
           ok == inv.ok /\ DynCast_state1(DynCast_input(inv.directive),
                               [Send |-> FALSE, Sync |-> FALSE], <<>>).ok
       IN  IF ok
           THEN /\ impl' = DynCast_macro(inv.directive)
                /\ pc' = "run"
           ELSE /\ impl' = NoImpl
                /\ pc' = "error"
    /\ UNCHANGED <<directive, hash, ptr, res, alive, wrapper, fut, rc>>

ExpandCrosscastAttr ==
    /\ pc = "generate"
    /\ directive.generator = "derive_crosscast!"
    /\ LET inv == derive_crosscast_invocation(directive.items)
       IN  IF inv.ok
           THEN /\ impl' = derive_crosscast(inv.directive)
                /\ pc' = "run"
           ELSE /\ impl' = NoImpl
                /\ pc' = "error"
    /\ UNCHANGED <<directive, hash, ptr, res, alive, wrapper, fut, rc>>

\* LeafModule: no dispatcher is generated either way.
DeriveLeafModule ==
    /\ pc = "generate"
    /\ directive.generator = "LeafModule"
    /\ pc' = IF leaf_module_attrs("", directive.items).ok THEN "derived" ELSE "error"
    /\ UNCHANGED <<directive, hash, impl, ptr, res, alive, wrapper, fut, rc>>

InitAttr == \E d \in AttrDirectives : \E h \in AttrHashes(d) : InitWith(d, h)

NextAttr ==
    \/ DeriveAttr \/ ExpandDynCastAttr \/ ExpandCrosscastAttr \/ DeriveLeafModule
    \/ CallDynCanCast
    \/ Reset

SpecAttr == InitAttr /\ [][NextAttr]_vars

(***************************************************************************)
(* What the directive declares, in the words of the specification.         *)
(***************************************************************************)
Generated == directive.generator \in {"derive", "DynCast!"}

\* The declared interfaces I and the declared markers M (the default markers
\* when the key is left out).
DeclaredInterfaces == Range(directive.base_traits)
DeclaredMarkers ==
    IF directive.auto_given THEN Range(directive.auto_traits) ELSE {"Send", "Sync"}

\* The Castable Set: the concrete type, and every view of exactly one base
\* among the declared interfaces, Any and DynCast with a subset of the
\* declared markers.
CastableSet ==
    {ConcreteId(ImplType)}
    \cup {DynId(b, s) : b \in DeclaredInterfaces \cup {"Any", "DynCast"},
                        s \in SUBSET DeclaredMarkers}

Distinct(list) == \A i, j \in 1..Len(list) : list[i] = list[j] => i = j

C3_CastRefToSelf ==
    (Generated /\ res.meth = "cast_ref" /\ res.to = ConcreteId(ImplType))
        => /\ res.tag = "Some"
           /\ res.ptr.addr = ptr.addr
           /\ res.ptr.concrete = ptr.concrete
           /\ res.ptr.view = ConcreteId(ImplType)
           /\ res.ptr.kind = "ref"
           /\ alive

\* A reference held as a trait object, of a type declared with empty lists,
\* has been cast to the concrete type.
C3_Witness ==
    /\ Generated /\ res.meth = "cast_ref" /\ res.to = ConcreteId(ImplType)
    /\ directive.base_given /\ directive.base_traits = <<>>
    /\ directive.auto_given /\ directive.auto_traits = <<>>
    /\ ptr.view = DynId("DynCast", {})
    /\ res.tag = "Some" /\ res.ptr.addr = "obj"

\* C4: for an interface that was not declared for the concrete type, can_cast
\* is false and the cast returns nothing: None from cast_ref and cast_mut,
\* Err from cast_box, cast_rc and cast_arc.
Undeclared(T) == T.dyn /\ T.name \in UserTraits \ DeclaredInterfaces

C4_UndeclaredInterfaceNotCast ==
    (/\ Generated
     /\ res.meth \in {"cast_ref", "cast_mut", "cast_box", "cast_rc", "cast_arc"}
     /\ Undeclared(res.to))
        => /\ ~res.can
           /\ res.meth \in {"cast_ref", "cast_mut"} => res.tag = "None"
           /\ res.meth \in {"cast_box", "cast_rc", "cast_arc"} => res.tag = "Err"

\* An Rc held as one declared interface has been refused the other interface,
\* which is not declared.
C4_Witness ==
    /\ Generated /\ res.meth = "cast_rc"
    /\ directive.base_traits = <<"Get0">>
    /\ ptr.view = DynId("Get0", {})
    /\ res.to = DynId("Get1", {"Send"})
    /\ res.tag = "Err" /\ ~res.can

\* C5: when cast_box, cast_rc, cast_arc or the Box crosscast fails (the
\* target is not castable, or Err is returned), the result is Err with the
\* pointer the call was given, to the same object, which is still alive:
\* nothing was dropped.
Owned == {"cast_box", "cast_rc", "cast_arc", "crosscast"}

C5_FailedOwnedCastReturnsPointer ==
    (res.meth \in Owned /\ (~res.can \/ res.tag = "Err"))
        => /\ res.tag = "Err"
           /\ res.ptr = ptr
           /\ ~res.dropped
           /\ alive

\* A Box held as the dispatcher's trait object came back from a failed
\* crosscast.
C5_Witness ==
    /\ res.meth = "crosscast" /\ ~res.can
    /\ ptr.kind = "box" /\ ptr.view = DynId("Crosscast", {})
    /\ res.tag = "Err" /\ res.ptr = ptr /\ alive

\* C6: if the declared markers lack Send or lack Sync (the empty list
\* included), cast_arc returns Err for every target, also for the concrete
\* type and for dyn Any, for which can_cast is true, whatever interfaces are
\* declared.
C6_CastArcNeedsSendAndSync ==
    (/\ Generated /\ res.meth = "cast_arc"
     /\ ~({"Send", "Sync"} \subseteq DeclaredMarkers))
        => /\ res.tag = "Err"
           /\ res.ptr = ptr
           /\ alive
           /\ res.to \in {ConcreteId(ImplType), AnyAlone} => res.can

\* The empty marker list, two interfaces declared: cast_arc to the concrete
\* type fails though can_cast is true.
C6_Witness ==
    /\ Generated /\ res.meth = "cast_arc"
    /\ directive.auto_given /\ directive.auto_traits = <<>>
    /\ Cardinality(DeclaredInterfaces) = 2
    /\ res.to = ConcreteId(ImplType)
    /\ res.can /\ res.tag = "Err"

\* C7: on any implementation of the trait, generated or written by hand,
\* cast_arc returns Err with the pointer it was given whenever the object is
\* not castable to dyn Any + Send + Sync, even when can_cast is true for the
\* target and dyn_cast_arc would answer Some; Ok is returned only for an
\* object castable to dyn Any + Send + Sync.
C7_CastArcSecondGuard ==
    res.meth = "cast_arc"
        => /\ ~can_cast(impl, AnySendSync)
                => (res.tag = "Err" /\ res.ptr = ptr /\ alive)
           /\ res.tag = "Ok" => can_cast(impl, AnySendSync)

\* A hand-written implementation that is castable to the target, whose
\* dyn_cast_arc answers Some with the right function, but that is not
\* castable to dyn Any + Send + Sync.
C7_Witness ==
    /\ directive.generator = "hand-written" /\ res.meth = "cast_arc"
    /\ res.can
    /\ dyn_cast_arc(impl, ptr, res.to).some
    /\ dyn_cast_arc(impl, ptr, res.to).val.fun = res.to
    /\ ~can_cast(impl, AnySendSync)
    /\ res.tag = "Err" /\ res.ptr = ptr

\* C8: dyn_cast_arc of a generated type answers Some for an identifier
\* exactly when the identifier is in the Castable Set and Send and Sync are
\* both declared markers, which is when the object can be cast to the
\* identifier and to dyn Any + Sync + Send; otherwise the method is there all
\* the same and answers None for every identifier.
C8_DynCastArc ==
    (Generated /\ res.meth = "dyn_cast_arc")
        => /\ res.tag \in {"Some", "None"}
           /\ res.tag = "Some"
                <=> (res.to \in CastableSet
                     /\ {"Send", "Sync"} \subseteq DeclaredMarkers)
           /\ res.tag = "Some"
                <=> (dyn_can_cast(impl, res.to) /\ dyn_can_cast(impl, AnySendSync))
           /\ res.tag = "Some" => res.fun = res.to

\* Send alone is declared: the method has been called for the concrete type
\* and has answered None.
C8_Witness ==
    /\ Generated /\ res.meth = "dyn_cast_arc"
    /\ directive.auto_given /\ directive.auto_traits = <<"Send">>
    /\ res.to = ConcreteId(ImplType)
    /\ res.can /\ res.tag = "None"

\* C9: for every declared interface X, casting a shared reference to the
\* concrete type to dyn X and the result back to the concrete type succeeds
\* at both steps and gives a reference to the same object.
C9_RoundTrip ==
    (/\ Generated /\ res.meth = "cast_ref.cast_ref"
     /\ ptr.view = ConcreteId(ImplType)
     /\ res.via.dyn /\ res.via.name \in DeclaredInterfaces
     /\ res.to = ConcreteId(ImplType))
        => /\ cast_ref(impl, ptr, res.via).tag = "Some"
           /\ res.tag = "Some"
           /\ res.ptr.addr = ptr.addr
           /\ res.ptr.concrete = ptr.concrete
           /\ res.ptr.view = ConcreteId(ImplType)

\* The round trip through the second of two declared interfaces.
C9_Witness ==
    /\ Generated /\ res.meth = "cast_ref.cast_ref"
    /\ ptr.view = ConcreteId(ImplType)
    /\ directive.base_traits = <<"Get0", "Get1">>
    /\ res.via = DynId("Get1", {}) /\ res.to = ConcreteId(ImplType)
    /\ res.tag = "Some" /\ res.ptr.addr = "obj"

\* C10: for a type declaring interfaces X and Y, can_cast is true for dyn X
\* and for dyn Y; a reference held as dyn X can be cast to dyn Y, and one
\* held as dyn Y to dyn X, the result being a reference to the same instance;
\* and so after any chain of such casts.
IsDeclaredView(T) == T.dyn /\ T.name \in DeclaredInterfaces /\ T.autos = {}

C10_CrossCast ==
    /\ (/\ Generated /\ res.meth \in {"cast_ref", "cast_ref.cast_ref"}
        /\ IsDeclaredView(res.to))
        => res.can
    /\ (/\ Generated /\ res.meth = "cast_ref"
        /\ IsDeclaredView(ptr.view) /\ IsDeclaredView(res.to))
        => /\ res.tag = "Some"
           /\ res.ptr.addr = ptr.addr
           /\ res.ptr.concrete = ptr.concrete
           /\ res.ptr.view = res.to
    /\ (/\ Generated /\ res.meth = "cast_ref.cast_ref"
        /\ IsDeclaredView(ptr.view) /\ IsDeclaredView(res.via)
        /\ IsDeclaredView(res.to))
        => /\ res.tag = "Some"
           /\ res.ptr.addr = ptr.addr
           /\ res.ptr.concrete = ptr.concrete
           /\ res.ptr.view = res.to

\* A reference obtained as dyn Get1 by a cast has been cast to dyn Get0 and
\* back to dyn Get1.
C10_Witness ==
    /\ Generated /\ res.meth = "cast_ref.cast_ref"
    /\ ptr.view = DynId("Get1", {})
    /\ res.via = DynId("Get0", {}) /\ res.to = DynId("Get1", {})
    /\ res.tag = "Some" /\ res.ptr.addr = "obj"
    /\ res.ptr.view = DynId("Get1", {})

\* C11: the castable views are closed under removal of markers: when the
\* view of a base with a set of markers is castable, so is the view of the
\* same base with every subset of it, the empty one included.
C11_MarkerSubsetClosure ==
    (res.meth = "dyn_can_cast" /\ res.can /\ res.to.dyn)
        => \A s \in SUBSET res.to.autos :
               dyn_can_cast(impl, DynId(res.to.name, s))

\* A view with two markers of a declared interface is castable, for a type
\* generated by derive_crosscast!.
C11_Witness ==
    /\ directive.generator = "derive_crosscast!"
    /\ res.meth = "dyn_can_cast" /\ res.can
    /\ res.to = DynId("Get0", {"Send", "Unpin"})

\* C12: without the marker option the generator uses the markers Send and
\* Sync; with the option, even with an empty list, it uses exactly the
\* listed markers and adds no default, so that an empty list gives no view
\* with a marker.
C12_DefaultMarkers ==
    (/\ res.meth = "dyn_can_cast" /\ res.to.dyn
     /\ res.to.name \in {"Any", impl.trait} \cup Range(directive.base_traits))
        => /\ ~directive.auto_given
                => (res.can <=> res.to.autos \subseteq {"Send", "Sync"})
           /\ directive.auto_given
                => (res.can <=> res.to.autos \subseteq Range(directive.auto_traits))
           /\ (directive.auto_given /\ directive.auto_traits = <<>>)
                => (res.can <=> res.to.autos = {})

\* The option is given with an empty list: dyn Any + Send is refused.
C12_Witness ==
    /\ directive.generator = "derive"
    /\ directive.auto_given /\ directive.auto_traits = <<>>
    /\ res.meth = "dyn_can_cast"
    /\ res.to = DynId("Any", {"Send"})
    /\ ~res.can

\* C16: for every generated type the identifiers castable_types returns are
\* exactly those for which dyn_can_cast is true: each listed identifier
\* passes the membership test, and each identifier that passes it is listed.
C16_ListedIffMember ==
    res.meth = "castable_types"
        => /\ \A i \in 1..Len(res.list) : dyn_can_cast(impl, res.list[i])
           /\ \A T \in TargetTypes(impl.trait) :
                  dyn_can_cast(impl, T) => T \in Range(res.list)

\* The list of a type with one interface and one marker has been returned.
C16_Witness ==
    /\ res.meth = "castable_types"
    /\ directive.base_traits = <<"Get1">>
    /\ directive.auto_given /\ directive.auto_traits = <<"Unpin">>
    /\ DynId("Get1", {"Unpin"}) \in Range(res.list)
    /\ dyn_can_cast(impl, DynId("Get1", {"Unpin"}))

\* C17: for every generated type and each of dyn_cast_ref, dyn_cast_mut,
\* dyn_cast_box and dyn_cast_rc, the dispatch on an identifier returns a
\* wrapper exactly when dyn_can_cast is true for it; the wrapper holds the
\* pointer the call was given and the cast function for that identifier, so
\* that its cast to the identifier's type succeeds on the same object.
DispatchKinds == {"dyn_cast_ref", "dyn_cast_mut", "dyn_cast_box", "dyn_cast_rc"}

C17_DispatchIffMember ==
    (Generated /\ res.meth \in DispatchKinds)
        => /\ res.tag = "Some" <=> res.can
           /\ res.tag = "Some"
                => /\ res.ptr.addr = "obj" /\ res.ptr.concrete = ImplType
                   /\ "dyn_cast_" \o res.ptr.kind = res.meth
                   /\ res.fun = res.to
                   /\ DynCast_cast(from_any_cast_fn(res.ptr, res.fun), res.to)
                        = Some([res.ptr EXCEPT !.view = res.to])
                   /\ alive

\* dyn_cast_box of a type generated by DynCast! has answered for a view with
\* two markers.
C17_Witness ==
    /\ directive.generator = "DynCast!"
    /\ res.meth = "dyn_cast_box" /\ res.tag = "Some"
    /\ res.to = DynId("Get0", {"Send", "Sync"})
    /\ res.fun = res.to /\ res.ptr.kind = "box"

(***************************************************************************)
(* The wrappers in the caller's hands.                                     *)
(***************************************************************************)
MaxFinalize == 2

WrapperType(trait, kind) ==
    IF trait = "DynCast"
    THEN CASE kind = "ref" -> "DynCastRef" [] kind = "mut" -> "DynCastMut"
           [] kind = "box" -> "DynCastBox" [] kind = "rc" -> "DynCastRc"
           [] kind = "arc" -> "DynCastArc"
    ELSE CASE kind = "ref" -> "DynRef" [] kind = "mut" -> "DynMut"

DynCastWrappers == {"DynCastRef", "DynCastMut", "DynCastBox", "DynCastRc", "DynCastArc"}

\* obj.dyn_cast_ref(to), ..., obj.dyn_cast_arc(to), obj.dyn_crosscast_ref(to),
\* obj.dyn_crosscast_mut(to): Some(wrapper) is kept, None leaves nothing.
CallDispatcher ==
    /\ pc = "run"
    /\ wrapper = NoWrapper
    /\ \E kind \in Kinds(impl.trait) \ (IF impl.trait = "DynCast" THEN {} ELSE {"box"}),
          T \in TargetTypes(impl.trait) :
         LET r == IF impl.trait = "DynCast"
                  THEN dispatch("cast_" \o kind, impl, Fresh(kind), T)
                  ELSE dyn_crosscast(impl, Fresh(kind), T)
         IN  wrapper' =
                 IF ~r.some THEN NoWrapper
                 ELSE [kind |-> WrapperType(impl.trait, kind),
                       src |-> IF impl.trait = "DynCast" THEN r.val.src ELSE r.val.obj,
                       fun |-> IF impl.trait = "DynCast" THEN r.val.fun ELSE r.val.ty,
                       to |-> T, live |-> TRUE, finalized |-> 0, results |-> <<>>]
    /\ UNCHANGED <<directive, hash, impl, pc, ptr, res, alive, fut, rc>>

\* The types a wrapper is asked for: the type the dispatcher was asked for,
\* the type its cast function is for, and a type that is neither.
FinalizeTypes(w) == {w.to, w.fun, ConcreteId(OtherType)}

\* wrapper.cast::<T>() of DynCastRef, ..., DynCastArc: `self' is taken by
\* value.
WrapperCast ==
    /\ pc = "run"
    /\ wrapper.live
    /\ wrapper.kind \in DynCastWrappers
    /\ \E T \in FinalizeTypes(wrapper) :
         LET r == DynCast_cast(from_any_cast_fn(wrapper.src, wrapper.fun), T)
         IN  /\ wrapper' = [wrapper EXCEPT
                               !.live = FALSE,
                               !.finalized = @ + 1,
                               !.results = IF r.some THEN Append(@, "cast") ELSE @]
             /\ res' = [NoRes EXCEPT !.meth = "cast", !.to = T,
                                     !.tag = IF r.some THEN "Some" ELSE "None",
                                     !.ptr = IF r.some THEN r.val ELSE NoPtr]
    /\ UNCHANGED <<directive, hash, impl, pc, ptr, alive, fut, rc>>

\* dr.downcast_ref::<T>() of DynRef and DynMut, dm.downcast_mut::<T>() of
\* DynMut: `self' is borrowed, and the reference returned has the lifetime 'a
\* of the wrapper's target, not that of the borrow.
WrapperDowncast ==
    /\ pc = "run"
    /\ wrapper.live
    /\ wrapper.kind \in {"DynRef", "DynMut"}
    /\ wrapper.finalized < MaxFinalize
    /\ \E meth \in {"downcast_ref"}
                   \cup (IF wrapper.kind = "DynMut" THEN {"downcast_mut"} ELSE {}),
          T \in FinalizeTypes(wrapper) :
         LET r == DynRef_downcast(DynRef_new(wrapper.src, wrapper.fun), T)
         IN  /\ wrapper' = [wrapper EXCEPT
                               !.finalized = @ + 1,
                               !.results = IF r.some THEN Append(@, meth) ELSE @]
             /\ res' = [NoRes EXCEPT !.meth = meth, !.to = T,
                                     !.tag = IF r.some THEN "Some" ELSE "None",
                                     !.ptr = IF r.some THEN r.val ELSE NoPtr]
    /\ UNCHANGED <<directive, hash, impl, pc, ptr, alive, fut, rc>>

\* The wrapper, or what is left of it, goes out of scope.
DropWrapper ==
    /\ pc = "run"
    /\ wrapper # NoWrapper
    /\ wrapper' = NoWrapper
    /\ res' = NoRes
    /\ UNCHANGED <<directive, hash, impl, pc, ptr, alive, fut, rc>>

NextWrapper ==
    \/ Derive \/ ExpandDynCast \/ ExpandCrosscast \/ WriteByHand
    \/ CallDispatcher \/ WrapperCast \/ WrapperDowncast \/ DropWrapper

SpecWrapper == Init /\ [][NextWrapper]_vars

(***************************************************************************)
(* Import of a module from the root module.                                *)
(***************************************************************************)
MaxPolls == 2

\* The module types asked for, and the root modules: StdRootModule and a
\* root module that holds a loaded module.
ModuleTypes == {ConcreteId(ImplType), DynId("Get0", {}), DynId("Get1", {}),
                DynId("LeafModule", {})}
RootModules == {"StdRootModule", "root"}
Errors == {"not implemented", "load failed"}

\* What the future of dyn_import may complete with: StdRootModule's with its
\* error; any other root's with an error or with a DynCastRef to the module,
\* holding the cast function to some type.
dyn_import(root, as_type) ==
    IF root = "StdRootModule"
    THEN {[NoOut EXCEPT !.tag = "Err", !.err = "not implemented"]}
    ELSE {[NoOut EXCEPT !.tag = "Err", !.err = e] : e \in Errors}
         \cup {[NoOut EXCEPT !.tag = "Ok",
                             !.wrapper = [NoWrapper EXCEPT
                                             !.kind = "DynCastRef",
                                             !.src = Fresh("ref"),
                                             !.fun = f, !.to = as_type,
                                             !.live = TRUE]] :
                   f \in ModuleTypes \cup {AnySendSync}}

ROOT_MODULE_ERR ==
    "The contract of RootModule has been violated by an implementation."

\* An import_from that reports every failure of dyn_import as its own error.
import_from_resume_own_error(M, out) ==
    IF out.tag = "Err" THEN [NoOut EXCEPT !.tag = "Err", !.err = ROOT_MODULE_ERR]
    ELSE LET r == DynCast_cast(from_any_cast_fn(out.wrapper.src, out.wrapper.fun), M)
         IN  IF r.some THEN [NoOut EXCEPT !.tag = "Ok", !.ptr = r.val]
             ELSE [NoOut EXCEPT !.tag = "panic", !.err = ROOT_MODULE_ERR]

\* import_from, once dyn_import's future is ready: `?' returns the error; else
\* the wrapper is cast to M, and the cast's None is the panic.
import_from_resume(M, out) ==
    IF out.tag = "Err" THEN [NoOut EXCEPT !.tag = "Err", !.err = out.err]
    ELSE LET r == DynCast_cast(from_any_cast_fn(out.wrapper.src, out.wrapper.fun), M)
         IN  IF r.some THEN [NoOut EXCEPT !.tag = "Ok", !.ptr = r.val]
             ELSE [NoOut EXCEPT !.tag = "panic", !.err = ROOT_MODULE_ERR]

InitImport ==
    /\ directive = HandWritten
    /\ hash = NoHash
    /\ impl = NoImpl
    /\ pc = "import"
    /\ ptr = NoPtr
    /\ res = NoRes
    /\ alive = TRUE
    /\ wrapper = NoWrapper
    /\ fut = NoFut
    /\ rc = NoRc

\* root.import::<M>() / import_from::<M>(root) is called and polled for the
\* first time: root.dyn_import(TypeId::of::<M>()) is called and awaited.
ImportFrom ==
    /\ pc = "import"
    /\ fut.state = "none"
    /\ \E root \in RootModules, M \in ModuleTypes :
           fut' = [NoFut EXCEPT !.state = "pending", !.root = root, !.M = M]
    /\ UNCHANGED <<directive, hash, impl, pc, ptr, res, alive, wrapper, rc>>

\* dyn_import's future is polled and is not ready: import_from is suspended.
Suspend ==
    /\ pc = "import"
    /\ fut.state = "pending"
    /\ fut.root # "StdRootModule"
    /\ fut.polls < MaxPolls
    /\ fut' = [fut EXCEPT !.polls = @ + 1]
    /\ UNCHANGED <<directive, hash, impl, pc, ptr, res, alive, wrapper, rc>>

\* dyn_import's future is polled and is ready: in the same poll import_from
\* takes the output, casts the wrapper and returns (or panics).
Complete ==
    /\ pc = "import"
    /\ fut.state = "pending"
    /\ \E out \in dyn_import(fut.root, fut.M) :
         LET ret == import_from_resume(fut.M, out)
         IN  fut' = [fut EXCEPT
                        !.state = IF ret.tag = "panic" THEN "panicked" ELSE "returned",
                        !.out = out, !.ret = ret,
                        !.casts = IF out.tag = "Ok" THEN @ + 1 ELSE @]
    /\ UNCHANGED <<directive, hash, impl, pc, ptr, res, alive, wrapper, rc>>

\* Commands::load: `text: root.import::<dyn TextManager>().await?'.
Load ==
    /\ pc = "import"
    /\ fut.state = "returned"
    /\ fut.load = NoOut
    /\ fut' = [fut EXCEPT !.load = IF fut.ret.tag = "Err" THEN fut.ret
                                   ELSE [NoOut EXCEPT !.tag = "Ok"]]
    /\ UNCHANGED <<directive, hash, impl, pc, ptr, res, alive, wrapper, rc>>

\* The next import.
ImportAgain ==
    /\ pc = "import"
    /\ fut.state \in {"returned", "panicked"}
    /\ fut.state = "returned" => fut.load # NoOut
    /\ fut' = NoFut
    /\ UNCHANGED <<directive, hash, impl, pc, ptr, res, alive, wrapper, rc>>

NextImport == ImportFrom \/ Suspend \/ Complete \/ Load \/ ImportAgain

SpecImport == InitImport /\ [][NextImport]_vars

(***************************************************************************)
(* The same declaration written in another order.                          *)
(***************************************************************************)
\* What Derive and ExpandDynCast generate from a directive and the iteration
\* orders of the two sets.
GeneratedBy(d, h) ==
    IF d.generator = "derive" THEN derive(Options(d), h.base, h.auto)
    ELSE DynCast_macro(d)

\* The directive with its two lists (of distinct entries) in the order of the
\* names, and the iteration of the two sets in that order.
Rearranged(d) ==
    [d EXCEPT !.base_traits = Along(Range(d.base_traits)),
              !.auto_traits = Along(Range(d.auto_traits))]
InOrder(d) ==
    IF d.generator = "derive"
    THEN [base |-> Along(IteratedBase(d)), auto |-> Along(IteratedAuto(d))]
    ELSE NoHash

\* The extension method `meth' called on an implementation.
ExtCall(meth, imp, self, T) ==
    CASE meth = "cast_ref" -> cast_ref(imp, self, T)
      [] meth = "cast_mut" -> cast_mut(imp, self, T)
      [] meth = "cast_box" -> cast_box(imp, self, T)
      [] meth = "cast_rc" -> cast_rc(imp, self, T)
      [] meth = "cast_arc" -> cast_arc(imp, self, T)

\* Generation from every directive of distinct entries under every iteration
\* order, followed by casts of a pointer to a new object.
InitOrder ==
    \E d \in {x \in Directives : /\ x.generator # "derive_crosscast!"
                                 /\ NoDuplicates(x.base_traits)
                                 /\ NoDuplicates(x.auto_traits)} :
        \E h \in Hashes(d) : InitWith(d, h)

CastNew ==
    /\ pc = "run"
    /\ ptr = NoPtr
    /\ \E kind \in Kinds("DynCast"), T \in TargetTypes("DynCast") :
         /\ ptr' = Fresh(kind)
         /\ LET r == ExtCall("cast_" \o kind, impl, Fresh(kind), T)
            IN  /\ res' = [NoRes EXCEPT !.meth = "cast_" \o kind, !.to = T,
                                        !.can = can_cast(impl, T), !.tag = r.tag,
                                        !.ptr = r.ptr, !.dropped = r.dropped]
                /\ pc' = IF r.tag = "panic" THEN "panicked" ELSE "returned"
                /\ alive' = ~r.dropped
    /\ UNCHANGED <<directive, hash, impl, wrapper, fut, rc>>

\* The pointers are dropped.
DropAll ==
    /\ pc = "returned"
    /\ ptr' = NoPtr
    /\ res' = NoRes
    /\ alive' = TRUE
    /\ pc' = "run"
    /\ UNCHANGED <<directive, hash, impl, wrapper, fut, rc>>

NextOrder == Derive \/ ExpandDynCast \/ CastNew \/ DropAll

SpecOrder == InitOrder /\ [][NextOrder]_vars

(***************************************************************************)
(* Reference-counted pointers.                                             *)
(***************************************************************************)
MaxStrong == 2

\* The types an Rc or Arc is cast to.
RcTargets ==
    {ConcreteId(ImplType), DynId("Get0", {}), DynId("DynCast", {}), AnySendSync,
     ConcreteId(OtherType)}

RemoveAt(s, i) == SubSeq(s, 1, i - 1) \o SubSeq(s, i + 1, Len(s))

\* The implementations pointed to: generated with no base traits or with
\* two, and with no auto traits, with Send only or with Send and Sync (given
\* or by default); and the hand-written ones.
RcDirectives ==
    {x \in Directives : /\ x.generator # "derive_crosscast!"
                        /\ x.base_traits \in {<<>>, <<"Get0", "Get1">>}
                        /\ x.auto_traits \in {<<>>, <<"Send">>, <<"Send", "Sync">>}}

InitRc ==
    \E d \in RcDirectives \cup {HandWritten} : InitWith(d, InOrder(d))

\* Rc::new(Struct) or Arc::new(Struct), possibly coerced to dyn DynCast.
RcNew ==
    /\ pc = "run"
    /\ rc.kind = "none"
    /\ \E kind \in {"rc", "arc"}, view \in {ConcreteId(ImplType), DynId("DynCast", {})} :
           rc' = [kind |-> kind, strong |-> 1,
                  live |-> << [kind |-> kind, view |-> view, addr |-> "obj",
                               concrete |-> ImplType] >>,
                  freed |-> FALSE]
    /\ UNCHANGED <<directive, hash, impl, pc, ptr, res, alive, wrapper, fut>>

\* Rc::clone(&p): one more pointer, the count goes up.
RcClone ==
    /\ pc = "run"
    /\ rc.kind # "none"
    /\ rc.strong < MaxStrong
    /\ \E i \in DOMAIN rc.live :
           rc' = [rc EXCEPT !.strong = @ + 1, !.live = Append(@, rc.live[i])]
    /\ UNCHANGED <<directive, hash, impl, pc, ptr, res, alive, wrapper, fut>>

\* drop(p): the count goes down, and the object is destroyed at zero.
RcDrop ==
    /\ pc = "run"
    /\ \E i \in DOMAIN rc.live :
           rc' = [rc EXCEPT !.strong = @ - 1, !.live = RemoveAt(@, i),
                            !.freed = (rc.strong - 1 = 0)]
    /\ UNCHANGED <<directive, hash, impl, pc, ptr, res, alive, wrapper, fut>>

\* p.cast_rc::<T>() or p.cast_arc::<T>(): p is moved into the call.  The call
\* hands a pointer back in Ok or Err, or drops the one it was given.
RcCast ==
    /\ pc = "run"
    /\ \E i \in DOMAIN rc.live, T \in RcTargets :
         /\ Callable(rc.live[i].view, "DynCast")
         /\ LET meth == "cast_" \o rc.kind
                r == ExtCall(meth, impl, rc.live[i], T)
                strong == IF r.dropped THEN rc.strong - 1 ELSE rc.strong
            IN  /\ rc' = [rc EXCEPT
                             !.strong = strong,
                             !.live = IF r.ptr # NoPtr THEN [@ EXCEPT ![i] = r.ptr]
                                      ELSE RemoveAt(@, i),
                             !.freed = (strong = 0)]
                /\ res' = [NoRes EXCEPT !.meth = meth, !.to = T,
                                        !.can = can_cast(impl, T), !.tag = r.tag,
                                        !.ptr = r.ptr, !.dropped = r.dropped]
                /\ pc' = IF r.tag = "panic" THEN "panicked" ELSE "run"
    /\ UNCHANGED <<directive, hash, impl, ptr, alive, wrapper, fut>>

\* The next object.
RcAgain ==
    /\ pc = "run"
    /\ rc.freed
    /\ rc' = NoRc
    /\ res' = NoRes
    /\ UNCHANGED <<directive, hash, impl, pc, ptr, alive, wrapper, fut>>

NextRc ==
    \/ Derive \/ ExpandDynCast \/ WriteByHand
    \/ RcNew \/ RcClone \/ RcDrop \/ RcCast \/ RcAgain

SpecRc == InitRc /\ [][NextRc]_vars

(***************************************************************************)
(* What a list of items declares.                                          *)
(***************************************************************************)
ItemLists(items, key) ==
    {items[i].list : i \in {j \in 1..Len(items) : items[j].key = key}}

\* The interfaces named in any base_traits list, and the markers named in
\* any auto_traits list (the defaults when there is none).
ItemInterfaces(items) == UNION {Range(l) : l \in ItemLists(items, "base_traits")}
ItemMarkers(items) ==
    IF ItemLists(items, "auto_traits") = {} THEN {"Send", "Sync"}
    ELSE UNION {Range(l) : l \in ItemLists(items, "auto_traits")}

CastableSetOf(I, M) ==
    {ConcreteId(ImplType)}
    \cup {DynId(b, s) : b \in I \cup {"Any", "DynCast"}, s \in SUBSET M}

CanSet(imp) == {TypeIdOf(imp.can[i]) : i \in 1..Len(imp.can)}

HasUnrecognisedMarker(items) ==
    \E l \in ItemLists(items, "auto_traits") : ~(Range(l) \subseteq AutoTrait)
HasDuplicateMarker(items) ==
    \E l \in ItemLists(items, "auto_traits") : ~NoDuplicates(l)
HasRepeatedKey(items) ==
    \E i, j \in 1..Len(items) :
        i < j /\ items[i].key = items[j].key /\ items[i].list # items[j].list

\* The list with each entry kept where it first occurs.
RECURSIVE Once(_)
Once(l) ==
    IF l = <<>> THEN <<>>
    ELSE LET rest == Once(SubSeq(l, 1, Len(l) - 1))
         IN  IF l[Len(l)] \in Range(rest) THEN rest ELSE Append(rest, l[Len(l)])
OnceEach(items) == [i \in 1..Len(items) |-> [items[i] EXCEPT !.list = Once(@)]]

\* Whether the generator accepts the items.
Accepts(generator, items) ==
    IF generator = "derive" THEN read_attr(PartialOptions, items).ok
    ELSE LET inv == DynCast_invocation(items)
         IN  inv.ok /\ DynCast_state1(DynCast_input(inv.directive),
                           [Send |-> FALSE, Sync |-> FALSE], <<>>).ok

\* C13: a marker outside Send, Sync, Unpin, UnwindSafe, RefUnwindSafe, be it
\* a path or an alias naming one of them, is reported as an error and no
\* implementation of the dispatcher is generated for the type.
C13_UnrecognisedMarkerIsError ==
    (Generated /\ HasUnrecognisedMarker(directive.items))
        => /\ pc \in {"generate", "error"}
           /\ impl = NoImpl

\* The derive macro has refused the path of Send.
C13_Witness ==
    /\ directive.generator = "derive"
    /\ directive.items = << [key |-> "auto_traits", list |-> <<"std::marker::Send">>] >>
    /\ pc = "error" /\ impl = NoImpl

ExtCasts == {"cast_ref", "cast_mut", "cast_box", "cast_rc", "cast_arc"}

\* C18: when the dispatcher called by cast_ref, cast_mut, cast_box, cast_rc or
\* cast_arc returns a wrapper for T whose cast function is for another type,
\* the call panics: it returns neither a pointer nor None nor Err.
C18_MismatchedWrapperPanics ==
    (/\ res.meth \in ExtCasts
     /\ dispatches(res.meth, impl, res.to)
     /\ LET w == dispatch(res.meth, impl, ptr, res.to)
        IN  w.some /\ w.val.fun # res.to)
        => res.tag = "panic" /\ pc = "panicked"

\* cast_arc of a hand-written implementation whose arm for the concrete type
\* holds the cast function to dyn Any + Send + Sync.
C18_Witness ==
    /\ directive.generator = "hand-written"
    /\ res.meth = "cast_arc" /\ res.to = ConcreteId(ImplType)
    /\ dispatches("cast_arc", impl, res.to)
    /\ dispatch("cast_arc", impl, ptr, res.to).some
    /\ dispatch("cast_arc", impl, ptr, res.to).val.fun = AnySendSync
    /\ pc = "panicked"

Disagree(meth, imp, self, T) == can_cast(imp, T) # dispatch(meth, imp, self, T).some

C20_WrapperSingleUse ==
    /\ wrapper.kind # "none"
         => first_arm(IF wrapper.kind = "DynCastArc" THEN impl.arc ELSE impl.tbl,
                      wrapper.to, 1) # 0
    /\ wrapper.finalized >= 1 => ~wrapper.live
    /\ wrapper.finalized <= 1
    /\ Len(wrapper.results) <= 1

\* C21: for a type generated with no base traits and no auto_traits list,
\* cast_ref, cast_mut, cast_box, cast_rc and cast_arc to the type itself and
\* to dyn Any with each subset of {Send, Sync} succeed, can_cast is true, and
\* the pointer returned is to the same object, of the implementing type,
\* seen as the type asked for; a user trait's trait object is not castable.
DefaultViews ==
    {ConcreteId(ImplType)} \cup {DynId("Any", s) : s \in SUBSET {"Send", "Sync"}}

C21_DefaultCasts ==
    (/\ Generated
     /\ directive.base_traits = <<>> /\ ~directive.auto_given
     /\ res.meth \in ExtCasts)
        => /\ res.to \in DefaultViews
                => /\ res.can
                   /\ res.tag \in {"Some", "Ok"}
                   /\ res.ptr.view = res.to
                   /\ res.ptr.addr = ptr.addr
                   /\ res.ptr.concrete = ImplType
                   /\ res.ptr.kind = ptr.kind
                   /\ ~res.dropped
           /\ (res.to.dyn /\ res.to.name \in UserTraits)
                => ~res.can /\ res.tag \in {"None", "Err"}

\* DynCast!(Struct, base_traits()): an Arc has been cast to
\* dyn Any + Send + Sync.
C21_Witness ==
    /\ directive.generator = "DynCast!"
    /\ directive.base_traits = <<>> /\ ~directive.auto_given
    /\ res.meth = "cast_arc" /\ res.to = AnySendSync
    /\ res.tag = "Ok" /\ res.ptr.view = AnySendSync /\ res.ptr.concrete = ImplType

C23_ImportAfterDynImport ==
    /\ [](fut.ret.tag = "Ok"
            => /\ fut.out.tag = "Ok"
               /\ fut.casts = 1
               /\ fut.ret.ptr.view = fut.M
               /\ fut.ret.ptr.addr = fut.out.wrapper.src.addr)
    /\ [](fut.out.tag = "Err"
            => /\ fut.ret.tag = "Err" /\ fut.ret.err = fut.out.err
               /\ fut.casts = 0)
    /\ [](fut.out # NoOut => fut.state \in {"returned", "panicked"})
    /\ [][(fut.out = NoOut /\ fut'.out # NoOut)
            => /\ fut.state = "pending"
               /\ fut'.polls = fut.polls
               /\ fut'.ret # NoOut
               /\ fut'.casts = IF fut'.out.tag = "Ok" THEN 1 ELSE 0]_vars

\* import_from was suspended twice and has returned the module as dyn Get0.
C23_Witness ==
    /\ fut.state = "returned" /\ fut.polls = MaxPolls
    /\ fut.M = DynId("Get0", {})
    /\ fut.ret.tag = "Ok" /\ fut.ret.ptr.view = DynId("Get0", {})

\* C29: when dyn_import's future completes with a wrapper whose cast function
\* is for a type other than M, import_from panics with ROOT_MODULE_ERR and
\* returns no reference.
C29_ImportMismatchPanics ==
    (fut.out.tag = "Ok" /\ fut.out.wrapper.fun # fut.M)
        => /\ fut.state = "panicked"
           /\ fut.ret.tag = "panic" /\ fut.ret.err = ROOT_MODULE_ERR
           /\ fut.ret.ptr = NoPtr
           /\ fut.load = NoOut

\* dyn Get0 was asked for and the wrapper held the cast function to dyn Get1.
C29_Witness ==
    /\ fut.M = DynId("Get0", {})
    /\ fut.out.tag = "Ok" /\ fut.out.wrapper.fun = DynId("Get1", {})
    /\ fut.state = "panicked"

\* C24: with a generated implementation no call of cast_ref, cast_mut,
\* cast_box, cast_rc or cast_arc panics: whenever the method calls the
\* dispatcher method, it answers Some exactly when the type asked for is
\* castable, with the cast function for that type, and the pointer given is
\* never dropped.
C24_GeneratedNeverPanics ==
    (Generated /\ res.meth \in ExtCasts \cup {"cast_ref.cast_ref"})
        => /\ res.tag # "panic" /\ pc # "panicked"
           /\ ~res.dropped /\ alive
           /\ (res.meth \in ExtCasts /\ dispatches(res.meth, impl, res.to))
                => LET w == dispatch(res.meth, impl, ptr, res.to)
                   IN  /\ w.some <=> res.can
                       /\ w.some => w.val.fun = res.to /\ res.tag \in {"Some", "Ok"}

\* cast_arc has passed both guards and returned Ok.
C24_Witness ==
    /\ Generated
    /\ res.meth = "cast_arc" /\ res.to = DynId("Get0", {"Send"})
    /\ dispatches("cast_arc", impl, res.to)
    /\ res.tag = "Ok" /\ pc = "returned"

\* C30: the expansion of DynCast! over a list of auto traits reaches the
\* output; the Send flag is then true exactly when Send is in the list given
\* (or defaulted), and the Sync flag likewise, wherever they stand; a flag
\* that is true stays true over any rest of the list; and the normal
\* dyn_cast_arc is generated exactly when both flags are true.
C30_FlagsAtOutput ==
    directive.generator = "DynCast!"
        => LET input == DynCast_input(directive)
               s1 == DynCast_state1(input, [Send |-> FALSE, Sync |-> FALSE], <<>>)
           IN  /\ s1.ok
               /\ s1.flags.Send <=> "Send" \in Range(input)
               /\ s1.flags.Sync <=> "Sync" \in Range(input)
               /\ \A k \in 1..(Len(input) + 1) :
                      LET rest == SubSeq(input, k, Len(input))
                      IN  /\ DynCast_state1(rest, [Send |-> TRUE, Sync |-> FALSE],
                                            <<>>).flags.Send
                          /\ DynCast_state1(rest, [Send |-> FALSE, Sync |-> TRUE],
                                            <<>>).flags.Sync
               /\ pc # "generate"
                    => /\ impl.trait = "DynCast" /\ impl.tbl # <<>>
                       /\ impl.arc # <<>> <=> (s1.flags.Send /\ s1.flags.Sync)
                       /\ impl.arc # <<>> => impl.arc = impl.tbl

\* auto_traits(Send, Sync) given with Send first: the normal dyn_cast_arc has
\* answered Some.
C30_Witness ==
    /\ directive.generator = "DynCast!"
    /\ directive.auto_given /\ directive.auto_traits = <<"Send", "Sync">>
    /\ res.meth = "dyn_cast_arc" /\ res.tag = "Some"

\* C25: in whatever order the base traits and the auto traits are written
\* and the derive macro's two sets are iterated, the types castable to, the
\* answer of can_cast for every type and the result of every cast are those
\* of the same declaration written and iterated in the order of the names
\* (hence the same for any two orders).
C25_OrderIndependent ==
    (Generated /\ pc # "generate")
        => LET imp2 == GeneratedBy(Rearranged(directive), InOrder(directive))
           IN  /\ CanSet(imp2) = CanSet(impl)
               /\ (ptr = NoPtr /\ res = NoRes)
                    => \A T \in TargetTypes("DynCast") :
                           dyn_can_cast(imp2, T) = dyn_can_cast(impl, T)
               /\ res.meth \in ExtCasts
                    => LET r2 == ExtCall(res.meth, imp2, ptr, res.to)
                       IN  /\ can_cast(imp2, res.to) = res.can
                           /\ r2.tag = res.tag
                           /\ r2.ptr = res.ptr
                           /\ r2.dropped = res.dropped

\* base_traits(Get1, Get0), auto_traits(Sync, Send), the sets iterated
\* against the order of the names: a box has been cast to
\* dyn Get0 + Send + Sync.
C25_Witness ==
    /\ directive.generator = "derive"
    /\ directive.base_traits = <<"Get1", "Get0">>
    /\ directive.auto_traits = <<"Sync", "Send">>
    /\ hash.auto = <<"Sync", "Send">>
    /\ res.meth = "cast_box" /\ res.to = DynId("Get0", {"Send", "Sync"})
    /\ res.tag = "Ok"

\* The other of the two generators of DynCast, and the type with Crosscast
\* in the place of DynCast.
OtherGenerator == IF directive.generator = "derive" THEN "DynCast!" ELSE "derive"
Swap(T) ==
    IF T.dyn /\ T.name = "DynCast" THEN [T EXCEPT !.name = "Crosscast"]
    ELSE IF T.dyn /\ T.name = "Crosscast" THEN [T EXCEPT !.name = "DynCast"]
    ELSE T
Succeeds(r) == r.tag \in {"Some", "Ok"}

\* C26: from the same lists of distinct base traits and auto traits, the
\* derive macro and DynCast! generate implementations that agree on can_cast
\* for every type and on the success of every cast with each of the five
\* kinds of pointer; derive_crosscast! generates one that agrees with them,
\* dyn Crosscast standing for dyn DynCast, on the castable types and on the
\* success of the casts of references and boxes.
C26_GeneratorsAgree ==
    (Generated /\ pc # "generate")
        => LET other == [directive EXCEPT !.generator = OtherGenerator]
               imp2 == GeneratedBy(other, InOrder(other))
               imp3 == derive_crosscast(directive)
           IN  /\ CanSet(imp2) = CanSet(impl)
               /\ {Swap(T) : T \in CanSet(imp3)} = CanSet(impl)
               /\ (ptr = NoPtr /\ res = NoRes)
                    => \A T \in TargetTypes("DynCast") :
                           /\ dyn_can_cast(imp2, T) = dyn_can_cast(impl, T)
                           /\ may_crosscast(imp3, Swap(T)) = dyn_can_cast(impl, T)
               /\ res.meth \in ExtCasts
                    => /\ can_cast(imp2, res.to) = res.can
                       /\ Succeeds(ExtCall(res.meth, imp2, ptr, res.to))
                            <=> Succeeds(res)
               /\ res.meth = "cast_ref"
                    => Succeeds(crosscast_ref(imp3, ptr, Swap(res.to))) <=> Succeeds(res)
               /\ res.meth = "cast_mut"
                    => Succeeds(crosscast_mut(imp3, ptr, Swap(res.to))) <=> Succeeds(res)
               /\ res.meth = "cast_box"
                    => Succeeds(crosscast(imp3, ptr, Swap(res.to))) <=> Succeeds(res)

\* From base_traits(Get0), without auto_traits: the derived implementation
\* has cast a box to dyn DynCast + Send.
C26_Witness ==
    /\ directive.generator = "derive"
    /\ directive.base_traits = <<"Get0">> /\ ~directive.auto_given
    /\ res.meth = "cast_box" /\ res.to = DynId("DynCast", {"Send"})
    /\ res.tag = "Ok"

\* C27: over any sequence of clones, casts and drops of Rc and Arc pointers
\* to an object, the strong count is the number of pointers held, the object
\* is destroyed exactly when none is left, every pointer held points to the
\* object; and a cast that returns leaves the count as it was and hands back
\* exactly one pointer for the one it took: the cast pointer in Ok, or the
\* pointer it was given in Err.
C27_CastMovesPointer ==
    /\ [](rc.kind # "none"
            => /\ rc.strong = Len(rc.live)
               /\ rc.freed <=> rc.live = <<>>
               /\ \A i \in DOMAIN rc.live :
                      /\ rc.live[i].addr = "obj"
                      /\ rc.live[i].concrete = ImplType
                      /\ rc.live[i].kind = rc.kind)
    /\ [][(RcCast /\ pc' = "run")
            => /\ rc'.strong = rc.strong
               /\ Len(rc'.live) = Len(rc.live)
               /\ ~rc'.freed
               /\ ~res'.dropped
               /\ \/ /\ res'.tag = "Ok"
                     /\ res'.ptr.view = res'.to
                     /\ \E i \in DOMAIN rc.live :
                            rc'.live = [rc.live EXCEPT ![i] = res'.ptr]
                  \/ /\ res'.tag = "Err"
                     /\ res'.ptr \in Range(rc.live)
                     /\ rc'.live = rc.live]_vars

\* Two Arc pointers are held, one of them cast to dyn Any + Send + Sync.
C27_Witness ==
    /\ rc.kind = "arc" /\ rc.strong = 2 /\ Len(rc.live) = 2
    /\ res.meth = "cast_arc" /\ res.tag = "Ok"
    /\ rc.live[1].view = AnySendSync
    /\ rc.live[2].view = DynId("DynCast", {})

\* C28: from one DynMut that dyn_crosscast_mut returned, at most one mutable
\* reference of the borrowed lifetime is extracted, and no shared reference
\* beside it: no two references to the object, one of them mutable, are
\* usable at once.
C28_OneMutableReference ==
    wrapper.kind = "DynMut"
        => \A i, j \in DOMAIN wrapper.results :
               (i # j) => (wrapper.results[i] # "downcast_mut"
                           /\ wrapper.results[j] # "downcast_mut")

====
